---------------------------- MODULE Spec2Model ----------------------------
(***************************************************************************)
(* Model of the foodgram serialization layer: backend/api/serializers.py   *)
(* (CreateRecipeSerializer, IngredientsAmountSerializer,                    *)
(* SubscriptionSerializer) and backend/api/utils.py (is_subscribed).       *)
(*                                                                         *)
(* The database is the state: the Recipe table with, per recipe, its       *)
(* cooking_time, its tag associations and its RecipeIngredient rows, and   *)
(* the subscription relation.  Django runs in autocommit mode: none of the *)
(* modelled methods opens a transaction, so every ORM statement that       *)
(* completed before an exception stays committed.                          *)
(***************************************************************************)
EXTENDS Integers, Sequences, FiniteSets

VARIABLES
    recipes,          \* Recipe table: recipes[i] is the recipe with pk i
    uniqueTogether,   \* schema: is (recipe, ingredient) unique in RecipeIngredient
    last,             \* the last recipe write request and its outcome
    subscriptions,    \* subscription relation: set of <<user, author>>
    lastSub           \* the last subscription call and its outcome

vars == <<recipes, uniqueTogether, last, subscriptions, lastSub>>

---------------------------------------------------------------------------
(* Bounds of the model *)

MaxLen == 2          \* longest ingredient / tag list in a request
MaxRecipes == 1      \* recipes the store may hold

(* Values of foodgram.settings.MIN_VALUE / MAX_VALUE, as the messages of   *)
(* the amount and cooking_time fields state them                           *)
MIN_VALUE == 1
MAX_VALUE == 32000

(* Rows of the Ingredient and Tag tables; pk 3 exists in neither *)
Ingredients == {1, 2}
Tags == {1, 2}
RequestIds == {1, 2, 3}

None == << >>
Some(v) == <<v>>
IsNone(o) == o = << >>
Get(o) == o[1]

SeqsUpTo(S, n) == UNION {[1..k -> S] : k \in 0..n}
Range(s) == {s[i] : i \in 1..Len(s)}
Optional(S) == {None} \cup {Some(v) : v \in S}

---------------------------------------------------------------------------
(* Field-level validation run by is_valid() before create()/update() *)

\* Faulty variant: the upper limit is exclusive
IngredientsAmountSerializer_exclusive_max(entry) ==
    entry.amount >= MIN_VALUE /\ entry.amount < MAX_VALUE

\* IngredientsAmountSerializer: id is any integer, amount is range-checked
IngredientsAmountSerializer(entry) ==
    entry.amount >= MIN_VALUE /\ entry.amount <= MAX_VALUE

\* CreateRecipeSerializer.cooking_time
cooking_time_field(value) ==
    value >= MIN_VALUE /\ value <= MAX_VALUE

\* CreateRecipeSerializer.tags: PrimaryKeyRelatedField(queryset=Tag.objects.all())
tags_field(pk) == pk \in Tags

\* is_valid(): a field absent from the data is an error unless the update is
\* partial; a present field runs its validators.  Empty lists are allowed by
\* both list fields, and no validate() hook is defined on the serializer.
is_valid(data, partial) ==
    /\ (~partial) => /\ ~IsNone(data.ingredients)
                     /\ ~IsNone(data.tags)
                     /\ ~IsNone(data.cooking_time)
    /\ ~IsNone(data.ingredients) =>
          \A i \in 1..Len(Get(data.ingredients)) :
              IngredientsAmountSerializer(Get(data.ingredients)[i])
    /\ ~IsNone(data.tags) =>
          \A i \in 1..Len(Get(data.tags)) : tags_field(Get(data.tags)[i])
    /\ ~IsNone(data.cooking_time) => cooking_time_field(Get(data.cooking_time))

---------------------------------------------------------------------------
(* CreateRecipeSerializer.validate_ingredients_and_tags: "ok" or the error   *)
(* it raises.  Neither create() nor update() nor any serializer hook calls *)
(* it.                                                                     *)

RECURSIVE FirstIngredientError(_, _, _)
FirstIngredientError(ingredients, i, ingredient_ids) ==
    IF i > Len(ingredients) THEN "ok"
    ELSE IF ingredients[i].id \notin Ingredients THEN "ingredient does not exist"
    ELSE IF ingredients[i].id \in ingredient_ids THEN "ingredient already added"
    ELSE FirstIngredientError(ingredients, i + 1,
                              ingredient_ids \cup {ingredients[i].id})

RECURSIVE FirstTagError(_, _, _)
FirstTagError(tags, i, tag_names) ==
    IF i > Len(tags) THEN "ok"
    ELSE IF tags[i] \notin Tags THEN "tag does not exist"
    ELSE IF tags[i] \in tag_names THEN "repeated tag"
    ELSE FirstTagError(tags, i + 1, tag_names \cup {tags[i]})

validate_ingredients_and_tags(ingredients, tags) ==
    IF ingredients = << >> THEN "recipe without ingredients"
    ELSE IF tags = << >> THEN "recipe without tags"
    ELSE IF FirstIngredientError(ingredients, 1, {}) # "ok"
         THEN FirstIngredientError(ingredients, 1, {})
    ELSE FirstTagError(tags, 1, {})

---------------------------------------------------------------------------
(* Persistence *)

HasDuplicateId(ingredients) ==
    \E i, j \in 1..Len(ingredients) :
        i # j /\ ingredients[i].id = ingredients[j].id

\* RecipeIngredient.objects.bulk_create: one INSERT, all rows or none.  It
\* raises IntegrityError on a foreign key to a missing ingredient, and on a
\* repeated (recipe, ingredient) when the schema makes the pair unique.
bulk_create(recipe_ingredients, existing, unique) ==
    IF \/ \E i \in 1..Len(recipe_ingredients) :
              recipe_ingredients[i].id \notin Ingredients
       \/ unique /\ HasDuplicateId(existing \o recipe_ingredients)
    THEN [raised |-> TRUE, rows |-> existing]
    ELSE [raised |-> FALSE, rows |-> existing \o recipe_ingredients]

\* Faulty variant: the row's amount is read from the wrong key
add_recipe_ingredients_wrong_amount(ingredients, recipe, unique) ==
    IF IsNone(ingredients)
    THEN [raised |-> TRUE, recipe |-> recipe]
    ELSE LET made == bulk_create(
                 [i \in 1..Len(Get(ingredients)) |->
                     [id |-> Get(ingredients)[i].id,
                      amount |-> Get(ingredients)[i].id]],
                 recipe.rows, unique)
         IN  [raised |-> made.raised,
              recipe |-> [recipe EXCEPT !.rows = made.rows]]

\* add_recipe_ingredients(ingredients, recipe): iterating None raises
\* TypeError before anything is written.
add_recipe_ingredients(ingredients, recipe, unique) ==
    IF IsNone(ingredients)
    THEN [raised |-> TRUE, recipe |-> recipe]
    ELSE LET made == bulk_create(
                 [i \in 1..Len(Get(ingredients)) |->
                     [id |-> Get(ingredients)[i].id,
                      amount |-> Get(ingredients)[i].amount]],
                 recipe.rows, unique)
         IN  [raised |-> made.raised,
              recipe |-> [recipe EXCEPT !.rows = made.rows]]

\* recipe.tags.set(tags): tuple(None) raises TypeError; otherwise the
\* association set becomes the set of the given tags.
tags_set(tags, recipe) ==
    IF IsNone(tags)
    THEN [raised |-> TRUE, recipe |-> recipe]
    ELSE [raised |-> FALSE,
          recipe |-> [recipe EXCEPT !.tags = Range(Get(tags))]]

\* CreateRecipeSerializer.create
create(validated_data, unique) ==
    LET created == [cooking_time |-> Get(validated_data.cooking_time),
                    tags |-> {}, rows |-> << >>]
        tagged == tags_set(validated_data.tags, created)
        filled == add_recipe_ingredients(validated_data.ingredients,
                                         tagged.recipe, unique)
    IN  IF tagged.raised THEN [result |-> "error", recipe |-> tagged.recipe]
        ELSE IF filled.raised THEN [result |-> "error", recipe |-> filled.recipe]
        ELSE [result |-> "ok", recipe |-> filled.recipe]

\* Faulty variant: update without instance.ingredients.clear()
update_without_clear(instance, validated_data, unique) ==
    LET saved == IF IsNone(validated_data.cooking_time) THEN instance
                 ELSE [instance EXCEPT
                          !.cooking_time = Get(validated_data.cooking_time)]
        filled == add_recipe_ingredients(validated_data.ingredients,
                                         saved, unique)
        untagged == [filled.recipe EXCEPT !.tags = {}]
        tagged == tags_set(validated_data.tags, untagged)
    IN  IF filled.raised THEN [result |-> "error", recipe |-> filled.recipe]
        ELSE IF tagged.raised THEN [result |-> "error", recipe |-> tagged.recipe]
        ELSE [result |-> "ok", recipe |-> tagged.recipe]

\* CreateRecipeSerializer.update: super().update() saves the scalar fields
\* that are present, then the rows are cleared and recreated, then the tags.
\* An exception ends the method where it is raised.
update(instance, validated_data, unique) ==
    LET saved == IF IsNone(validated_data.cooking_time) THEN instance
                 ELSE [instance EXCEPT
                          !.cooking_time = Get(validated_data.cooking_time)]
        cleared == [saved EXCEPT !.rows = << >>]
        filled == add_recipe_ingredients(validated_data.ingredients,
                                         cleared, unique)
        untagged == [filled.recipe EXCEPT !.tags = {}]
        tagged == tags_set(validated_data.tags, untagged)
    IN  IF filled.raised THEN [result |-> "error", recipe |-> filled.recipe]
        ELSE IF tagged.raised THEN [result |-> "error", recipe |-> tagged.recipe]
        ELSE [result |-> "ok", recipe |-> tagged.recipe]

---------------------------------------------------------------------------
(* Requests *)

Entries == [id : RequestIds, amount : {1, 2}]

\* Requests of the recipe endpoints: a list may be absent (PATCH), empty,
\* repeat an id, or name an ingredient that does not exist; one request has
\* a cooking_time below the minimum.
RecipeEntries == [id : RequestIds, amount : {2}] \cup {[id |-> 1, amount |-> 3]}
Payloads ==
    [ingredients : Optional(SeqsUpTo(RecipeEntries, MaxLen)),
     tags : Optional(SeqsUpTo(Tags, MaxLen)),
     cooking_time : {Some(1), Some(2)}]
    \cup {[ingredients |-> Some(<<[id |-> 1, amount |-> 2]>>),
           tags |-> Some(<<1>>),
           cooking_time |-> Some(MIN_VALUE - 1)]}

\* Requests a client may keep resending; a tag pk may be unknown.
RetryPayloads ==
    [ingredients : Optional(SeqsUpTo(Entries, MaxLen)),
     tags : Optional(SeqsUpTo(RequestIds, MaxLen)),
     cooking_time : {Some(2)}]

\* Requests around the limits of amount and cooking_time.
LimitValues == {MIN_VALUE - 1, MIN_VALUE, MAX_VALUE, MAX_VALUE + 1}
LimitPayloads ==
    [ingredients : {Some(s) : s \in SeqsUpTo([id : {1}, amount : LimitValues],
                                             MaxLen)},
     tags : {Some(<<1>>)},
     cooking_time : {Some(v) : v \in LimitValues}]

\* Recipes already stored when a resent request arrives: each is what one
\* POST that passed is_valid() leaves behind.
SeedPayloads ==
    [ingredients : {Some(s) : s \in SeqsUpTo({[id |-> 1, amount |-> 1],
                                              [id |-> 2, amount |-> 2]},
                                             MaxLen)},
     tags : {Some(<<1>>), Some(<<2, 1>>)},
     cooking_time : {Some(1)}]

NoPayload == [ingredients |-> None, tags |-> None, cooking_time |-> None]

SameRequest(op, rid, data) ==
    last.op = op /\ last.rid = rid /\ last.payload = data

\* POST /recipes/: is_valid() then save() -> create()
CreateRequest(data) ==
    /\ Len(recipes) < MaxRecipes
    /\ IF is_valid(data, FALSE)
       THEN LET done == create(data, uniqueTogether)
            IN  /\ recipes' = Append(recipes, done.recipe)
                /\ last' = [op |-> "create", rid |-> Len(recipes) + 1,
                            payload |-> data, result |-> done.result,
                            repeat |-> FALSE]
       ELSE /\ recipes' = recipes
            /\ last' = [op |-> "create", rid |-> 0, payload |-> data,
                        result |-> "invalid", repeat |-> FALSE]
    /\ UNCHANGED <<uniqueTogether, subscriptions, lastSub>>

\* PATCH /recipes/{id}/: is_valid() with partial=True then save() -> update().
\* PUT runs the same method with every field required, so it reaches
\* update() only with requests PATCH reaches it with as well.
UpdateRequest(rid, data) ==
    /\ rid \in 1..Len(recipes)
    /\ IF is_valid(data, TRUE)
       THEN LET done == update(recipes[rid], data, uniqueTogether)
            IN  /\ recipes' = [recipes EXCEPT ![rid] = done.recipe]
                /\ last' = [op |-> "update", rid |-> rid, payload |-> data,
                            result |-> done.result,
                            repeat |-> SameRequest("update", rid, data)]
       ELSE /\ recipes' = recipes
            /\ last' = [op |-> "update", rid |-> rid, payload |-> data,
                        result |-> "invalid",
                        repeat |-> SameRequest("update", rid, data)]
    /\ UNCHANGED <<uniqueTogether, subscriptions, lastSub>>

---------------------------------------------------------------------------
(* Subscriptions *)

Anonymous == "anonymous"
AuthUsers == {"u1", "u2", "u3"}

\* Faulty variant: the subscription is looked up in the wrong direction
is_subscribed_reversed(user, author) ==
    IF user = Anonymous THEN FALSE
    ELSE <<author, user>> \in subscriptions

\* backend/api/utils.py is_subscribed
is_subscribed(user, author) ==
    IF user = Anonymous THEN FALSE
    ELSE <<user, author>> \in subscriptions

\* Faulty variant: the comparison is inverted
validate_inverted(data) ==
    IF data.author # data.user
    THEN [raised |-> TRUE, data |-> None]
    ELSE [raised |-> FALSE, data |-> Some(data)]

\* SubscriptionSerializer.validate: data.get() gives None for a missing key
validate(data) ==
    IF data.author = data.user
    THEN [raised |-> TRUE, data |-> None]
    ELSE [raised |-> FALSE, data |-> Some(data)]

SubscriptionData == [author : Optional(AuthUsers), user : Optional(AuthUsers)]

\* Subscribing: validate(), then the view stores the subscription row
Subscribe(data) ==
    /\ LET checked == validate(data)
       IN  /\ lastSub' = [op |-> "validate", data |-> data,
                          result |-> ~checked.raised,
                          returned |-> checked.data]
           /\ subscriptions' =
                 IF checked.raised \/ IsNone(data.user) \/ IsNone(data.author)
                 THEN subscriptions
                 ELSE subscriptions \cup {<<Get(data.user), Get(data.author)>>}
    /\ UNCHANGED <<recipes, uniqueTogether, last>>

\* A read serializer asks is_subscribed(request.user, obj)
IsSubscribedCall(user, author) ==
    /\ lastSub' = [op |-> "is_subscribed",
                   data |-> [author |-> Some(author), user |-> Some(user)],
                   result |-> is_subscribed(user, author),
                   returned |-> None]
    /\ UNCHANGED <<recipes, uniqueTogether, last, subscriptions>>

---------------------------------------------------------------------------
(* Specifications *)

NoRequest == [op |-> "none", rid |-> 0, payload |-> NoPayload,
              result |-> "none", repeat |-> FALSE]
NoCall == [op |-> "none", data |-> [author |-> None, user |-> None],
           result |-> FALSE, returned |-> None]

Init ==
    /\ recipes = << >>
    /\ uniqueTogether \in BOOLEAN
    /\ last = NoRequest
    /\ subscriptions = {}
    /\ lastSub = NoCall

NextRecipe ==
    \/ \E data \in Payloads : CreateRequest(data)
    \/ \E rid \in 1..MaxRecipes, data \in Payloads : UpdateRequest(rid, data)

NextSubscription ==
    \/ \E data \in SubscriptionData : Subscribe(data)
    \/ \E user \in AuthUsers \cup {Anonymous}, author \in AuthUsers :
          IsSubscribedCall(user, author)

Next == NextRecipe \/ NextSubscription

Spec == Init /\ [][Next]_vars

\* Any sequence of recipe write requests on an empty store
SpecRecipe == Init /\ [][NextRecipe]_vars

\* Subscription calls only
SpecSubscription == Init /\ [][NextSubscription]_vars

\* A client that keeps sending one request, held in last.payload from the
\* start, to a store that already holds at most one recipe
InitStored(payloads) ==
    /\ uniqueTogether \in BOOLEAN
    /\ recipes \in {<< >>} \cup
          {<<create(seed, uniqueTogether).recipe>> : seed \in SeedPayloads}
    /\ last \in {[NoRequest EXCEPT !.payload = data] : data \in payloads}
    /\ subscriptions = {}
    /\ lastSub = NoCall

NextRetry ==
    \/ CreateRequest(last.payload)
    \/ \E rid \in 1..MaxRecipes : UpdateRequest(rid, last.payload)

SpecRetry == InitStored(RetryPayloads) /\ [][NextRetry]_vars

SpecLimits == InitStored(LimitPayloads) /\ [][NextRetry]_vars

---------------------------------------------------------------------------
(* Properties *)

IsRecipeRequest(req) == req.op \in {"create", "update"}

Ids(ingredients) == {ingredients[i].id : i \in 1..Len(ingredients)}

\* N >= 1 entries with pairwise distinct ids of existing ingredients
DistinctExistingIngredients(ingredients) ==
    /\ Len(ingredients) >= 1
    /\ Ids(ingredients) \subseteq Ingredients
    /\ Cardinality(Ids(ingredients)) = Len(ingredients)

\* M >= 1 pairwise distinct existing tags
DistinctExistingTags(tags) ==
    /\ Len(tags) >= 1
    /\ Range(tags) \subseteq Tags
    /\ Cardinality(Range(tags)) = Len(tags)

InLimits(n) == n >= 1 /\ n <= 32000

ValidCreatePayload(data) ==
    /\ ~IsNone(data.ingredients) /\ ~IsNone(data.tags)
    /\ ~IsNone(data.cooking_time)
    /\ InLimits(Get(data.cooking_time))
    /\ \A i \in 1..Len(Get(data.ingredients)) :
          InLimits(Get(data.ingredients)[i].amount)
    /\ DistinctExistingIngredients(Get(data.ingredients))
    /\ DistinctExistingTags(Get(data.tags))

\* C1: after a create request with a valid payload of N >= 1 distinct
\* existing ingredients and M >= 1 distinct existing tags, the new recipe has
\* exactly N RecipeIngredient rows, the i-th carrying the id and amount of
\* the i-th entry, and exactly M tag associations.
C1_CreateStoresEveryEntry ==
    (last.op = "create" /\ ValidCreatePayload(last.payload)) =>
        /\ last.result = "ok"
        /\ last.rid = Len(recipes)
        /\ LET recipe == recipes[last.rid]
               ingredients == Get(last.payload.ingredients)
               tags == Get(last.payload.tags)
           IN  /\ Len(recipe.rows) = Len(ingredients)
               /\ \A i \in 1..Len(ingredients) :
                     /\ recipe.rows[i].id = ingredients[i].id
                     /\ recipe.rows[i].amount = ingredients[i].amount
               /\ Cardinality(recipe.tags) = Len(tags)
               /\ recipe.tags = Range(tags)

C1_Witness ==
    /\ last.op = "create" /\ ValidCreatePayload(last.payload)
    /\ Len(Get(last.payload.ingredients)) = 2
    /\ Len(Get(last.payload.tags)) = 2
    /\ Len(recipes[last.rid].rows) = 2
    /\ validate_ingredients_and_tags(Get(last.payload.ingredients),
                                     Get(last.payload.tags)) = "ok"

HasDuplicateIngredient(data) ==
    ~IsNone(data.ingredients) /\ HasDuplicateId(Get(data.ingredients))

\* C2: a create or update request whose ingredients list repeats an
\* ingredient id is rejected with a validation error and leaves the Recipe
\* and RecipeIngredient tables as they were.
C2_DuplicateIngredientRejected ==
    [][(IsRecipeRequest(last') /\ HasDuplicateIngredient(last'.payload)) =>
          (last'.result = "invalid" /\ recipes' = recipes)]_vars

EmptyTagsOnly(data) ==
    /\ ~IsNone(data.tags) /\ Get(data.tags) = << >>
    /\ ~IsNone(data.ingredients) /\ Get(data.ingredients) # << >>

EmptyIngredientsOnly(data) ==
    /\ ~IsNone(data.ingredients) /\ Get(data.ingredients) = << >>
    /\ ~IsNone(data.tags) /\ Get(data.tags) # << >>

\* C3: a write request with an empty tags list and a non-empty ingredients
\* list, or an empty ingredients list and a non-empty tags list, is rejected
\* and the stored recipes, rows and tag associations are unchanged.
C3_EmptyListRejected ==
    [][(/\ IsRecipeRequest(last')
        /\ EmptyTagsOnly(last'.payload) \/ EmptyIngredientsOnly(last'.payload))
       => (last'.result = "invalid" /\ recipes' = recipes)]_vars

\* C4: every persisted recipe has a non-empty ingredient list without
\* duplicate ids, all of existing ingredients, and a non-empty set of
\* existing tags.
C4_RecipesWellFormed ==
    \A r \in 1..Len(recipes) :
        /\ DistinctExistingIngredients(recipes[r].rows)
        /\ recipes[r].tags # {}
        /\ recipes[r].tags \subseteq Tags

\* C5: a create or update that fails partway leaves the store exactly as it
\* was before the request.
C5_FailureLeavesStoreUntouched ==
    [][(IsRecipeRequest(last') /\ last'.result = "error") =>
          recipes' = recipes]_vars

\* C6: an update sent a second time with the same ingredient and tag lists
\* leaves the recipe's rows and tags as the first application left them,
\* whatever the recipe held before the first, and a completed update leaves
\* as many rows as the list has entries.
C6_UpdateIdempotent ==
    /\ [][(last'.op = "update" /\ last'.repeat) =>
             recipes'[last'.rid] = recipes[last'.rid]]_vars
    /\ []((last.op = "update" /\ last.repeat /\ last.result = "ok") =>
             Len(recipes[last.rid].rows) = Len(Get(last.payload.ingredients)))

C6_Witness ==
    /\ last.op = "update" /\ last.repeat /\ last.result = "ok"
    /\ Len(recipes[last.rid].rows) = 2
    /\ recipes[last.rid].tags = {1, 2}

\* The lists of an update request that are present are well formed
PresentListsWellFormed(data) ==
    /\ ~IsNone(data.ingredients) =>
          DistinctExistingIngredients(Get(data.ingredients))
    /\ ~IsNone(data.tags) => DistinctExistingTags(Get(data.tags))

\* C7: every update request that passes field validation completes, also
\* with the ingredient or tag list absent, and leaves the recipe with
\* exactly the rows and tags of the lists given (none for an absent list).
C7_UpdateCompletes ==
    (/\ last.op = "update"
     /\ last.result # "invalid"
     /\ PresentListsWellFormed(last.payload)) =>
        /\ last.result = "ok"
        /\ recipes[last.rid].rows =
              IF IsNone(last.payload.ingredients) THEN << >>
              ELSE Get(last.payload.ingredients)
        /\ recipes[last.rid].tags =
              IF IsNone(last.payload.tags) THEN {}
              ELSE Range(Get(last.payload.tags))

\* C8: a request is accepted exactly when every amount and the cooking_time
\* are in [1, 32000] (0 and 32001 rejected, 1 and 32000 accepted), and no
\* stored amount or cooking_time is outside [1, 32000].
C8_LimitsEnforced ==
    /\ IsRecipeRequest(last) =>
          (last.result # "invalid" <=>
              /\ InLimits(Get(last.payload.cooking_time))
              /\ \A i \in 1..Len(Get(last.payload.ingredients)) :
                    InLimits(Get(last.payload.ingredients)[i].amount))
    /\ \A r \in 1..Len(recipes) :
          /\ InLimits(recipes[r].cooking_time)
          /\ \A i \in 1..Len(recipes[r].rows) :
                InLimits(recipes[r].rows[i].amount)

C8_Witness ==
    /\ IsRecipeRequest(last) /\ last.result = "ok"
    /\ recipes[last.rid].cooking_time = 32000
    /\ \E i \in 1..Len(recipes[last.rid].rows) :
          recipes[last.rid].rows[i].amount = 32000
    /\ \E i \in 1..Len(recipes[last.rid].rows) :
          recipes[last.rid].rows[i].amount = 1

C10_IsSubscribed ==
    /\ [](lastSub.op = "is_subscribed" =>
            LET user == Get(lastSub.data.user)
                author == Get(lastSub.data.author)
            IN  /\ user = Anonymous => ~lastSub.result
                /\ user # Anonymous =>
                      (lastSub.result <=> <<user, author>> \in subscriptions))
    /\ [][lastSub'.op = "is_subscribed" => subscriptions' = subscriptions]_vars

C10_Witness ==
    /\ lastSub.op = "is_subscribed" /\ lastSub.result
    /\ <<Get(lastSub.data.author), Get(lastSub.data.user)>> \notin subscriptions

=============================================================================
